---------------------------- MODULE Spec2Model ----------------------------
(***************************************************************************)
(* The BTC dominance tracker of src/main.py: a single-threaded poll loop   *)
(* that fetches the BTC dominance and a market snapshot, appends both to   *)
(* two PostgreSQL tables, reads the trailing 7-day window back, ranks the  *)
(* alts by relative strength, flags volume spikes and sends the alerts.    *)
(*                                                                         *)
(* Numbers: dominance is in whole percent, prices are in units of 0.01     *)
(* BTC, volumes are whole numbers.  Arithmetic is exact: a relative        *)
(* strength is a reduced fraction [num, den], and the volume test          *)
(* latest > avg * 1.5 is evaluated over the rationals.                     *)
(* Time is counted in ticks of one poll interval (time.sleep(300)).        *)
(***************************************************************************)
EXTENDS Integers, Sequences, FiniteSets, TLC

VARIABLES
    pc,                    \* where main() is: startup, polling, sleeping, crashed
    now,                   \* the database clock (CURRENT_TIMESTAMP / NOW()), in ticks
    cycles,                \* poll cycles run by this process
    btc_dominance_table,   \* table btc_dominance, in heap (insertion) order
    alt_btc_strength,      \* table alt_btc_strength, in heap (insertion) order
    btc_dominance,         \* main(): the last fetch_btc_dominance() result
    alt_data,              \* main(): the last fetch_alt_btc_strength() result
    btc_dominance_trend,   \* analyze_alts(): dominance rows as fetched
    past_data,             \* analyze_alts(): alt_id -> records as fetched
    rankings,              \* analyze_alts(): alt_id -> relative_strength
    top_alts,              \* main(): the ranking analyze_alts() returned
    accumulation_alerts,   \* main(): the signals analyze_alts() returned
    sent,                  \* messages dispatched in the current cycle
    raised                 \* the exception that ended the process, "" if none

vars == <<pc, now, cycles, btc_dominance_table, alt_btc_strength, btc_dominance,
          alt_data, btc_dominance_trend, past_data, rankings, top_alts,
          accumulation_alerts, sent, raised>>

---------------------------------------------------------------------------
\* Bounds of the model.

\* Poll cycles one process runs.
MaxCycles == 2

\* The trailing window (INTERVAL '7 days'), in ticks.
WindowTicks == 2

---------------------------------------------------------------------------
\* Program constants.

\* The two dominance thresholds and the price-change threshold are set at
\* lines 25-27 and read by no line of the program.
BTC_DOMINANCE_HIGH == 55

BTC_DOMINANCE_LOW == 45

\* 0.02 BTC, in units of 0.01 BTC.
ALT_STRENGTH_CHANGE_THRESHOLD == 2

\* ACCUMULATION_VOLUME_SPIKE = 1.5 = SpikeNum / SpikeDen.
SpikeNum == 3

SpikeDen == 2

\* The slice [:5] of the sorted rankings.
TopN == 5

\* HTTP status of a successful response.
StatusOK == 200

\* Python None, SQL NULL, a JSON null.
None == 0 - 1

---------------------------------------------------------------------------
\* The inputs: what the data provider can answer.

\* Coins with rows in the store; PageCoins are the ones on the requested
\* page of the markets endpoint (order=market_cap_desc: eth before xrp).
Coins == {"ada", "bnb", "doge", "eth", "sol", "xrp"}

PageCoins == <<"eth", "xrp">>

\* A coin's quote: current_price (units of 0.01 BTC) and total_volume.
Quotes == { [btc |-> 1, volume |-> 1],
            [btc |-> 3, volume |-> 3],
            [btc |-> 0, volume |-> None] }

DominanceValues == {45, 50, 55}

\* Responses of /global: a failure, a 200 without the expected field, or a
\* 200 carrying market_cap_percentage.btc.
GlobalResponses ==
    { [status |-> 500, malformed |-> FALSE, btc |-> None],
      [status |-> StatusOK, malformed |-> TRUE, btc |-> None] }
    \cup { [status |-> StatusOK, malformed |-> FALSE, btc |-> d] : d \in DominanceValues }

\* A markets payload: the listed coins in page order, each with its quote.
RECURSIVE Listings(_)
Listings(i) ==
    IF i > Len(PageCoins) THEN { <<>> }
    ELSE LET rest == Listings(i + 1)
         IN  rest \cup { <<[id |-> PageCoins[i], btc |-> q.btc, volume |-> q.volume]>> \o r :
                           q \in Quotes, r \in rest }

MarketResponses ==
    { [status |-> 500, malformed |-> FALSE, coins |-> <<>>],
      [status |-> StatusOK, malformed |-> TRUE, coins |-> <<>>] }
    \cup { [status |-> StatusOK, malformed |-> FALSE, coins |-> c] : c \in Listings(1) }

---------------------------------------------------------------------------
\* Helpers.

Range(s) == { s[i] : i \in 1..Len(s) }

Last(s) == s[Len(s)]

Abs(x) == IF x < 0 THEN 0 - x ELSE x

Min(a, b) == IF a < b THEN a ELSE b

RECURSIVE GCD(_, _)
GCD(a, b) == IF b = 0 THEN a ELSE GCD(b, a % b)

\* The fraction n / d (d > 0), reduced.
Frac(n, d) ==
    LET g == GCD(Abs(n), d)
    IN  [num |-> n \div g, den |-> d \div g]

\* a > b on fractions.
FracGT(a, b) == a.num * b.den > b.num * a.den

---------------------------------------------------------------------------
\* The fetchers (lines 62-76).  A result is [raised, value]: raised when
\* the payload lacks the expected field (KeyError), value None on a
\* non-200 status.

fetch_btc_dominance(response) ==
    IF response.status = StatusOK
    THEN [raised |-> response.malformed, value |-> response.btc]
    ELSE [raised |-> FALSE, value |-> None]

\* The dict is kept as the sequence of its items (insertion order); isNone
\* tells None from a dict.
fetch_alt_btc_strength(response) ==
    IF response.status = StatusOK
    THEN [raised |-> response.malformed, isNone |-> FALSE, items |-> response.coins]
    ELSE [raised |-> FALSE, isNone |-> TRUE, items |-> <<>>]

\* Python truth of `if btc_dominance:` and `if alt_data:`.
TruthyDominance(d) == d # None /\ d # 0

TruthyAltData(a) == ~a.isNone /\ Len(a.items) > 0

---------------------------------------------------------------------------
\* The store (lines 79-91): INSERT only, timestamp DEFAULT CURRENT_TIMESTAMP.

\* A store that keeps one row and overwrites it (UPDATE for INSERT).
UpsertDominance(table, d, t) ==
    IF table = <<>> THEN <<[timestamp |-> t, btc_dominance |-> d]>>
    ELSE [table EXCEPT ![Len(table)] = [timestamp |-> t, btc_dominance |-> d]]

store_btc_dominance(table, d, t) ==
    Append(table, [timestamp |-> t, btc_dominance |-> d])

RECURSIVE store_alt_btc_strength(_, _, _)
store_alt_btc_strength(table, items, t) ==
    IF items = <<>> THEN table
    ELSE store_alt_btc_strength(
             Append(table, [timestamp |-> t, alt_id |-> items[1].id,
                            alt_btc |-> items[1].btc, volume |-> items[1].volume]),
             Tail(items), t)

---------------------------------------------------------------------------
\* fetch_past_alt_data (lines 94-107).

\* WHERE timestamp >= NOW() - INTERVAL '7 days'
InWindow(table, t) == SelectSeq(table, LAMBDA r : r.timestamp >= t - WindowTicks)

Rotate(s, k) == SubSeq(s, k + 1, Len(s)) \o SubSeq(s, 1, k)

\* The SELECTs carry no ORDER BY, so the order of fetchall() is whatever the
\* scan yields: heap order when it starts at the first page, and the heap
\* order rotated when it starts further in and wraps around.
ScanOrders(rows) ==
    IF rows = <<>> THEN { <<>> }
    ELSE { Rotate(rows, k) : k \in 0..(Len(rows) - 1) }

\* The loop of lines 103-106: past_data in first-appearance order of the
\* alt_id, each with its (alt_btc, volume) records in row order.
RECURSIVE GroupRows(_, _)
GroupRows(rows, acc) ==
    IF rows = <<>> THEN acc
    ELSE LET r   == rows[1]
             rec == [btc |-> r.alt_btc, volume |-> r.volume]
             hit == { i \in 1..Len(acc) : acc[i].alt_id = r.alt_id }
         IN  IF hit = {}
             THEN GroupRows(Tail(rows), Append(acc, [alt_id |-> r.alt_id, records |-> <<rec>>]))
             ELSE LET i == CHOOSE j \in hit : TRUE
                  IN  GroupRows(Tail(rows),
                                [acc EXCEPT ![i].records = Append(@, rec)])

---------------------------------------------------------------------------
\* analyze_alts (lines 110-132).

\* Line 115.
DominanceChange(trend) ==
    IF Len(trend) >= 2 THEN Last(trend).btc_dominance - trend[1].btc_dominance ELSE 0

\* The guard with the bound off by one (`< 1`).
QualifiesOne(records) == Len(records) >= 1

\* Line 118: `if len(records) < 2: continue`.
Qualifies(records) == Len(records) >= 2

\* Line 122: sum(r[1] or 0 for r in records).
RECURSIVE SumVolume(_)
SumVolume(records) ==
    IF records = <<>> THEN 0
    ELSE (IF records[1].volume = None THEN 0 ELSE records[1].volume)
         + SumVolume(Tail(records))

\* The price change alone, the dominance change not subtracted.
PriceChangeOnly(records, change) ==
    Frac(Last(records).btc - records[1].btc, records[1].btc)

\* Lines 120-125, for initial_price # 0.
RelativeStrength(records, change) ==
    LET initial_price == records[1].btc
        latest_price  == Last(records).btc
    IN  Frac(latest_price - initial_price - change * initial_price, initial_price)

\* Line 128: latest_volume > avg_volume * ACCUMULATION_VOLUME_SPIKE, with
\* avg_volume = SumVolume / len(records), for latest_volume # None.
VolumeSpike(records) ==
    Last(records).volume * Len(records) * SpikeDen > SumVolume(records) * SpikeNum

\* Line 124 divides by initial_price (ZeroDivisionError when it is 0) and
\* line 128 compares latest_volume with a float (TypeError when it is None).
RecordsRaise(records) ==
    \/ records[1].btc = 0
    \/ Last(records).volume = None

AnalysisRaises(pd) ==
    \E i \in 1..Len(pd) : Qualifies(pd[i].records) /\ RecordsRaise(pd[i].records)

\* The exception of the first alt, in dict order, that raises.
RaisedBy(pd) ==
    LET i == CHOOSE j \in 1..Len(pd) :
                 /\ Qualifies(pd[j].records) /\ RecordsRaise(pd[j].records)
                 /\ \A k \in 1..(j - 1) :
                        ~(Qualifies(pd[k].records) /\ RecordsRaise(pd[k].records))
    IN  IF pd[i].records[1].btc = 0 THEN "ZeroDivisionError" ELSE "TypeError"

\* The rankings dict after the loop, in insertion order.
RECURSIVE BuildRankings(_, _)
BuildRankings(pd, change) ==
    IF pd = <<>> THEN <<>>
    ELSE IF Qualifies(pd[1].records)
         THEN <<[alt_id |-> pd[1].alt_id,
                 relative_strength |-> RelativeStrength(pd[1].records, change)]>>
              \o BuildRankings(Tail(pd), change)
         ELSE BuildRankings(Tail(pd), change)

\* accumulation_alerts after the loop: the alts the messages name.
RECURSIVE BuildAccumulation(_)
BuildAccumulation(pd) ==
    IF pd = <<>> THEN <<>>
    ELSE IF Qualifies(pd[1].records) /\ VolumeSpike(pd[1].records)
         THEN <<pd[1].alt_id>> \o BuildAccumulation(Tail(pd))
         ELSE BuildAccumulation(Tail(pd))

\* sorted(..., key=lambda x: x[1], reverse=True): a stable sort, so items of
\* equal strength keep their dict order.
RECURSIVE InsertDesc(_, _)
InsertDesc(sorted, e) ==
    IF sorted = <<>> THEN <<e>>
    ELSE IF FracGT(e.relative_strength, sorted[1].relative_strength)
         THEN <<e>> \o sorted
         ELSE <<sorted[1]>> \o InsertDesc(Tail(sorted), e)

RECURSIVE SortDesc(_, _)
SortDesc(items, acc) ==
    IF items = <<>> THEN acc
    ELSE SortDesc(Tail(items), InsertDesc(acc, items[1]))

\* The sorted rankings without the slice.
TopAltsUnsliced(rk) == SortDesc(rk, <<>>)

\* Line 131.
TopAlts(rk) ==
    LET s == SortDesc(rk, <<>>)
    IN  SubSeq(s, 1, Min(TopN, Len(s)))

---------------------------------------------------------------------------
\* The messages main() dispatches.

StartedMsg(channel) == [kind |-> "started", channel |-> channel, alt |-> ""]

TopAltsMsg == [kind |-> "top_alts", channel |-> "telegram", alt |-> ""]

AccumulationMsg(alt) == [kind |-> "accumulation", channel |-> "telegram", alt |-> alt]

RECURSIVE AccumulationMsgs(_)
AccumulationMsgs(alts) ==
    IF alts = <<>> THEN <<>>
    ELSE <<AccumulationMsg(alts[1])>> \o AccumulationMsgs(Tail(alts))

---------------------------------------------------------------------------
\* main (lines 145-165).

TypeOK ==
    /\ pc \in {"startup", "polling", "sleeping", "crashed"}
    /\ now \in Nat
    /\ cycles \in 0..MaxCycles
    /\ raised \in {"", "KeyError", "ZeroDivisionError", "TypeError"}
    /\ (pc = "crashed") <=> (raised # "")

\* The process starts against an empty store.
Init ==
    /\ pc = "startup"
    /\ now = 0
    /\ cycles = 0
    /\ btc_dominance_table = <<>>
    /\ alt_btc_strength = <<>>
    /\ btc_dominance = None
    /\ alt_data = [raised |-> FALSE, isNone |-> TRUE, items |-> <<>>]
    /\ btc_dominance_trend = <<>>
    /\ past_data = <<>>
    /\ rankings = <<>>
    /\ top_alts = <<>>
    /\ accumulation_alerts = <<>>
    /\ sent = <<>>
    /\ raised = ""

\* Lines 146-148: CREATE TABLE IF NOT EXISTS leaves existing rows alone.
Startup ==
    /\ pc = "startup"
    /\ pc' = "polling"
    /\ sent' = <<StartedMsg("console"), StartedMsg("telegram")>>
    /\ UNCHANGED <<now, cycles, btc_dominance_table, alt_btc_strength, btc_dominance,
                   alt_data, btc_dominance_trend, past_data, rankings, top_alts,
                   accumulation_alerts, raised>>

\* One iteration of the while loop, lines 151-163, up to the sleep.
PollCycle ==
    /\ pc = "polling"
    /\ cycles < MaxCycles
    /\ cycles' = cycles + 1
    /\ now' = now
    /\ \E gr \in GlobalResponses, mr \in MarketResponses :
         LET d  == fetch_btc_dominance(gr)
             a  == fetch_alt_btc_strength(mr)
             dt == IF TruthyDominance(d.value)
                   THEN store_btc_dominance(btc_dominance_table, d.value, now)
                   ELSE btc_dominance_table
             at == IF TruthyAltData(a)
                   THEN store_alt_btc_strength(alt_btc_strength, a.items, now)
                   ELSE alt_btc_strength
         IN
         IF d.raised
         THEN \* line 66 raises: the process ends before anything is stored
              /\ pc' = "crashed"
              /\ raised' = "KeyError"
              /\ sent' = <<>>
              /\ UNCHANGED <<btc_dominance_table, alt_btc_strength, btc_dominance,
                             alt_data, btc_dominance_trend, past_data, rankings,
                             top_alts, accumulation_alerts>>
         ELSE IF a.raised
         THEN \* line 75 raises
              /\ pc' = "crashed"
              /\ raised' = "KeyError"
              /\ sent' = <<>>
              /\ btc_dominance' = d.value
              /\ UNCHANGED <<btc_dominance_table, alt_btc_strength,
                             alt_data, btc_dominance_trend, past_data, rankings,
                             top_alts, accumulation_alerts>>
         ELSE /\ btc_dominance' = d.value
              /\ alt_data' = a
              /\ btc_dominance_table' = dt
              /\ alt_btc_strength' = at
              /\ IF ~TruthyAltData(a)
                 THEN /\ pc' = "sleeping"
                      /\ sent' = <<>>
                      /\ raised' = ""
                      /\ UNCHANGED <<btc_dominance_trend, past_data, rankings,
                                     top_alts, accumulation_alerts>>
                 ELSE \E trend \in ScanOrders(InWindow(dt, now)),
                         rows \in ScanOrders(InWindow(at, now)) :
                        LET pd == GroupRows(rows, <<>>)
                            rk == BuildRankings(pd, DominanceChange(trend))
                            ac == BuildAccumulation(pd)
                        IN
                        /\ btc_dominance_trend' = trend
                        /\ past_data' = pd
                        /\ IF AnalysisRaises(pd)
                           THEN /\ pc' = "crashed"
                                /\ raised' = RaisedBy(pd)
                                /\ sent' = <<>>
                                /\ UNCHANGED <<rankings, top_alts, accumulation_alerts>>
                           ELSE /\ pc' = "sleeping"
                                /\ raised' = ""
                                /\ rankings' = rk
                                /\ top_alts' = TopAlts(rk)
                                /\ accumulation_alerts' = ac
                                /\ sent' = <<TopAltsMsg>> \o AccumulationMsgs(ac)

\* Line 165: time.sleep(300), then the next iteration.
Sleep ==
    /\ pc = "sleeping"
    /\ pc' = "polling"
    /\ now' = now + 1
    /\ UNCHANGED <<cycles, btc_dominance_table, alt_btc_strength, btc_dominance,
                   alt_data, btc_dominance_trend, past_data, rankings, top_alts,
                   accumulation_alerts, sent, raised>>

Next == Startup \/ PollCycle \/ Sleep

Spec == Init /\ [][Next]_vars

---------------------------------------------------------------------------
\* A restart against a store that earlier runs filled: setup_database()
\* keeps the rows (CREATE TABLE IF NOT EXISTS), so the window analyze_alts()
\* reads is drawn from the histories below, written at ticks 0 and 1.

CoinOrder == <<"eth", "xrp", "ada", "bnb", "doge", "sol">>

Q1 == [btc |-> 1, volume |-> 1]

Q2 == [btc |-> 3, volume |-> 3]

Q0 == [btc |-> 0, volume |-> None]

\* Quotes stored for a coin by the two earlier cycles (one or both).
PageHistories == { <<>>, <<Q1, Q1>>, <<Q0, Q1>> }

\* The coins off the page rose (Q1 then Q2) or fell (Q2 then Q1).
OtherHistories == { <<Q1, Q2>>, <<Q2, Q1>> }

HistoriesOf(c) ==
    IF c \in Range(PageCoins) THEN PageHistories
    ELSE IF c = "doge" THEN { <<Q1, Q2>> }
    ELSE IF c = "sol" THEN { <<Q2, Q1>> }
    ELSE OtherHistories

DominanceHistories == { <<45, 55>> }

CoinHistories ==
    { h \in [Coins -> PageHistories \cup OtherHistories] :
        \A c \in Coins : h[c] \in HistoriesOf(c) }

\* The listing of the cycle at tick t (0 or 1): a coin with two stored quotes
\* was listed in both cycles, a coin with one in the later cycle only.
RECURSIVE ListingAt(_, _, _)
ListingAt(h, t, i) ==
    IF i > Len(CoinOrder) THEN <<>>
    ELSE LET c == CoinOrder[i]
             k == Len(h[c]) - 1 + t
         IN  IF k >= 1
             THEN <<[id |-> c, btc |-> h[c][k].btc, volume |-> h[c][k].volume]>>
                  \o ListingAt(h, t, i + 1)
             ELSE ListingAt(h, t, i + 1)

StoredAlts(h) ==
    store_alt_btc_strength(store_alt_btc_strength(<<>>, ListingAt(h, 0, 1), 0),
                           ListingAt(h, 1, 1), 1)

StoredDominance(dh) ==
    IF dh = <<>> THEN <<>>
    ELSE store_btc_dominance(store_btc_dominance(<<>>, dh[1], 0), dh[2], 1)

InitWindow ==
    /\ pc = "startup"
    /\ now \in {WindowTicks, WindowTicks + 1}
    /\ cycles = MaxCycles - 1
    /\ btc_dominance_table \in { StoredDominance(dh) : dh \in DominanceHistories }
    /\ alt_btc_strength \in { StoredAlts(h) : h \in CoinHistories }
    /\ btc_dominance = None
    /\ alt_data = [raised |-> FALSE, isNone |-> TRUE, items |-> <<>>]
    /\ btc_dominance_trend = <<>>
    /\ past_data = <<>>
    /\ rankings = <<>>
    /\ top_alts = <<>>
    /\ accumulation_alerts = <<>>
    /\ sent = <<>>
    /\ raised = ""

SpecWindow == InitWindow /\ [][Next]_vars

---------------------------------------------------------------------------
\* What the properties below read off a state.

\* analyze_alts() returned in the cycle that has just run.
Analysed == pc = "sleeping" /\ TruthyAltData(alt_data)

\* analyze_alts() was entered in the cycle that has just run.
AnalysisEntered ==
    \/ Analysed
    \/ pc = "crashed" /\ raised \in {"ZeroDivisionError", "TypeError"}

IsPrefix(s, t) == Len(s) <= Len(t) /\ SubSeq(t, 1, Len(s)) = s

Kinds(msgs) == { msgs[i].kind : i \in 1..Len(msgs) }

AltIds(items) == { items[i].alt_id : i \in 1..Len(items) }

\* The stored samples of alt c inside the window at time t, oldest first.
SamplesOf(c, t) ==
    SelectSeq(InWindow(alt_btc_strength, t), LAMBDA r : r.alt_id = c)

NullAsZero(v) == IF v = None THEN 0 ELSE v

RECURSIVE VolumeTotal(_, _)
VolumeTotal(rows, i) ==
    IF i > Len(rows) THEN 0 ELSE NullAsZero(rows[i].volume) + VolumeTotal(rows, i + 1)

\* past_data[i] holds at least two records.
HasTwo(i) == Len(past_data[i].records) >= 2

ZeroInitial(i) == HasTwo(i) /\ past_data[i].records[1].btc = 0

NullLatest(i) ==
    HasTwo(i) /\ past_data[i].records[Len(past_data[i].records)].volume = None

\* The dominance delta of the claims: last - first with two samples, else 0.
TrendDelta ==
    IF Len(btc_dominance_trend) >= 2
    THEN btc_dominance_trend[Len(btc_dominance_trend)].btc_dominance
         - btc_dominance_trend[1].btc_dominance
    ELSE 0

\* The window the analysis read lists the samples oldest first.
InTimeOrder ==
    /\ btc_dominance_trend = InWindow(btc_dominance_table, now)
    /\ \A i \in 1..Len(past_data) :
           LET rows == SamplesOf(past_data[i].alt_id, now)
           IN  /\ Len(past_data[i].records) = Len(rows)
               /\ \A k \in 1..Len(rows) :
                      /\ past_data[i].records[k].btc = rows[k].alt_btc
                      /\ past_data[i].records[k].volume = rows[k].volume

---------------------------------------------------------------------------
\* C1: in every poll cycle in which a dominance d is fetched, d >= 55.0
\* dispatches a high-dominance alert, d <= 45.0 a low-dominance alert, and
\* 45.0 < d < 55.0 dispatches neither.
C1_DominanceAlerts ==
    (pc = "sleeping" /\ btc_dominance # None) =>
        /\ ("dominance_high" \in Kinds(sent)) <=> (btc_dominance >= 55)
        /\ ("dominance_low" \in Kinds(sent)) <=> (btc_dominance <= 45)

\* C2: if either fetch of a cycle fails, the cycle is skipped: nothing is
\* persisted, nothing is analysed, nothing is dispatched, and the loop goes
\* on to the wait (it does not crash).
C2_FailedFetchSkipsCycle ==
    /\ raised # "KeyError"
    /\ (pc = "sleeping" /\ (btc_dominance = None \/ alt_data.isNone)) =>
           /\ \A i \in 1..Len(btc_dominance_table) :
                  btc_dominance_table[i].timestamp # now
           /\ \A i \in 1..Len(alt_btc_strength) :
                  alt_btc_strength[i].timestamp # now
           /\ sent = <<>>

\* C3: for every alt with at least 2 samples in the window, an accumulation
\* signal is emitted iff latest_volume > 1.5 * avg_volume, a null volume
\* counting as 0 in the mean.  Stated for the windows read oldest first in
\* which no alt has an initial price of 0 (those cases are C10's and C8's).
C3_AccumulationIff ==
    (AnalysisEntered /\ InTimeOrder /\ \A i \in 1..Len(past_data) : ~ZeroInitial(i)) =>
        \A i \in 1..Len(past_data) :
            HasTwo(i) =>
                LET recs == past_data[i].records
                    n    == Len(recs)
                IN  (\E k \in 1..Len(sent) :
                         sent[k].kind = "accumulation" /\ sent[k].alt = past_data[i].alt_id)
                    <=> (2 * n * NullAsZero(recs[n].volume) > 3 * VolumeTotal(recs, 1))

\* C4: the ranking analyze_alts returns has length min(5, qualifying alts),
\* is in non-increasing order of relative_strength, and no alt left out of
\* it is stronger than an alt in it.
C4_RankingTopFive ==
    Analysed =>
        LET q == { i \in 1..Len(past_data) : HasTwo(i) }
        IN  /\ Len(top_alts) = (IF Cardinality(q) < 5 THEN Cardinality(q) ELSE 5)
            /\ \A i, j \in 1..Len(top_alts) :
                   i < j => ~FracGT(top_alts[j].relative_strength,
                                    top_alts[i].relative_strength)
            /\ \A i \in 1..Len(top_alts) :
                   /\ top_alts[i] \in Range(rankings)
                   /\ \A j \in 1..Len(top_alts) :
                          i # j => top_alts[i].alt_id # top_alts[j].alt_id
            /\ \A k \in 1..Len(rankings) :
                   rankings[k].alt_id \notin AltIds(top_alts) =>
                       \A i \in 1..Len(top_alts) :
                           ~FracGT(rankings[k].relative_strength,
                                   top_alts[i].relative_strength)

\* More than five alts qualify, of differing strength, and five are returned.
C4_Witness ==
    /\ Analysed
    /\ Cardinality({ i \in 1..Len(past_data) : HasTwo(i) }) > 5
    /\ Len(top_alts) = 5
    /\ FracGT(top_alts[1].relative_strength, top_alts[5].relative_strength)

\* C5: an alt with fewer than 2 samples in the trailing window is omitted:
\* it is not in the ranking and gets no accumulation signal.
C5_FewSamplesOmitted ==
    \A c \in Coins :
        Len(SamplesOf(c, now)) < 2 =>
            /\ Analysed =>
                   /\ c \notin AltIds(rankings)
                   /\ c \notin AltIds(top_alts)
                   /\ c \notin Range(accumulation_alerts)
            /\ AnalysisEntered => \A k \in 1..Len(sent) : sent[k].alt # c

\* An alt with two stored samples of which one is in the window, beside
\* alts that are ranked.
C5_Witness ==
    /\ Analysed
    /\ Len(top_alts) >= 1
    /\ \E c \in Coins :
           /\ Len(SamplesOf(c, now)) = 1
           /\ Len(SelectSeq(alt_btc_strength, LAMBDA r : r.alt_id = c)) >= 2

\* C6: the price-change alert keeps a previous price per asset: the first
\* observation never alerts, a later one alerts exactly when
\* abs(current - previous) >= 0.02.
C6_PriceChangeAlert ==
    Analysed =>
        \A i \in 1..Len(alt_data.items) :
            LET id    == alt_data.items[i].id
                prior == SelectSeq(alt_btc_strength,
                                   LAMBDA r : r.alt_id = id /\ r.timestamp < now)
                fired == \E k \in 1..Len(sent) :
                             sent[k].kind = "price_change" /\ sent[k].alt = id
            IN  IF prior = <<>> THEN ~fired
                ELSE fired <=>
                     (Abs(alt_data.items[i].btc - prior[Len(prior)].alt_btc) >= 2)

\* C7: for every qualifying alt, relative_strength =
\* (latest_price - initial_price) / initial_price - dominance_delta, over the
\* first and last record of the alt and of the dominance series in the
\* window handed to the analysis (0 with fewer than 2 dominance samples);
\* prices 100 then 102 with a delta of 0 give 0.02.
C7_RelativeStrength ==
    /\ RelativeStrength(<<[btc |-> 100, volume |-> None],
                          [btc |-> 102, volume |-> None]>>, 0) = [num |-> 1, den |-> 50]
    /\ Analysed =>
           \A i \in 1..Len(past_data) :
               HasTwo(i) =>
                   \E k \in 1..Len(rankings) :
                       /\ rankings[k].alt_id = past_data[i].alt_id
                       /\ LET s       == rankings[k].relative_strength
                              recs    == past_data[i].records
                              initial == recs[1].btc
                              latest  == recs[Len(recs)].btc
                          IN  /\ s.den > 0
                              /\ s.num * initial
                                   = (latest - initial - TrendDelta * initial) * s.den

\* An alt whose price moved is ranked while the dominance moved too.
C7_Witness ==
    /\ Analysed
    /\ TrendDelta # 0
    /\ \E i \in 1..Len(past_data) :
           /\ HasTwo(i)
           /\ past_data[i].records[1].btc # past_data[i].records[Len(past_data[i].records)].btc

\* C8: an alt whose initial price in the window is 0 is skipped: the
\* analysis does not fail, the alt is not ranked, the others are, and the
\* loop goes on.  Stated for the windows read oldest first in which no
\* latest volume is null.
C8_ZeroPriceSkipped ==
    (AnalysisEntered /\ InTimeOrder
                     /\ (\E i \in 1..Len(past_data) : ZeroInitial(i))
                     /\ (\A i \in 1..Len(past_data) : ~NullLatest(i))) =>
        /\ pc = "sleeping"
        /\ \A i \in 1..Len(past_data) :
               HasTwo(i) =>
                   (past_data[i].alt_id \in AltIds(rankings)) <=> ~ZeroInitial(i)

\* C9: both stored series are append-only: a step keeps every stored row in
\* place, and adds at most one dominance row and at most one row per
\* fetched alt.
C9_AppendOnly ==
    [][ /\ IsPrefix(btc_dominance_table, btc_dominance_table')
        /\ Len(btc_dominance_table') <= Len(btc_dominance_table) + 1
        /\ IsPrefix(alt_btc_strength, alt_btc_strength')
        /\ \A i \in (Len(alt_btc_strength) + 1)..Len(alt_btc_strength') :
               /\ \E k \in 1..Len(alt_data'.items) :
                      alt_data'.items[k].id = alt_btc_strength'[i].alt_id
               /\ \A j \in (Len(alt_btc_strength) + 1)..Len(alt_btc_strength') :
                      i # j => alt_btc_strength'[i].alt_id # alt_btc_strength'[j].alt_id
      ]_vars

\* A cycle has added a dominance row and two alt rows to tables that held
\* older rows.
C9_Witness ==
    /\ pc = "sleeping"
    /\ \E i, j \in 1..Len(btc_dominance_table) :
           /\ btc_dominance_table[i].timestamp < now
           /\ btc_dominance_table[j].timestamp = now
    /\ \E i \in 1..Len(alt_btc_strength) : alt_btc_strength[i].timestamp < now
    /\ Cardinality({ i \in 1..Len(alt_btc_strength) :
                       alt_btc_strength[i].timestamp = now }) = 2

\* C10: the window handed to the analysis is ordered by time: each alt's
\* records and the dominance series list the samples of the trailing window
\* oldest first.
C10_WindowInTimeOrder == AnalysisEntered => InTimeOrder

=============================================================================
